---- MODULE Spec2Model ----
(***************************************************************************)
(* Model of the Higgsfield media-generation proxy of video-creation-bot.   *)
(* Two variants of the client exist in the repository and both are         *)
(* modelled:                                                               *)
(*   "server"  src/server/replit_integrations/higgs/client.ts              *)
(*   "api"     src/api/higgs-client.ts                                     *)
(* One call of generateImage or generateVideo is followed from its         *)
(* credential check to its return or throw.  Every HTTP request (a         *)
(* submission, a status query, the SDK's subscribe) is one step whose      *)
(* response is chosen by the environment.                                  *)
(*                                                                         *)
(* The project store (MemStorage, LocalFileStorage) and its REST handlers  *)
(* are modelled beside it: StoreSpec runs the handlers on any request,     *)
(* RaceSpec interleaves overlapping PATCH handlers, and AppSpec runs the   *)
(* requests the client's own operations send.                              *)
(***************************************************************************)
EXTENDS Integers, Sequences, FiniteSets, TLC

(***************************************************************************)
(* JavaScript values.  A string field holding "" stands for a field that   *)
(* is absent, undefined or empty: the code only ever tests such fields for *)
(* truthiness.  A message is a sequence of tokens; String.includes(x) is   *)
(* the presence of token x.                                                *)
(***************************************************************************)
Undef == [t |-> "undef", s |-> "", url |-> "", image_url |-> ""]

Str(x) == [t |-> "str", s |-> x, url |-> "", image_url |-> ""]

Obj(u, iu) == [t |-> "obj", s |-> "", url |-> u, image_url |-> iu]

Or(a, b) == IF a # "" THEN a ELSE b

OrMsg(a, b) == IF a # <<>> THEN a ELSE b

Includes(msg, tok) == \E i \in DOMAIN msg : msg[i] = tok

Err(name, code, cause, msg) ==
    [name |-> name, code |-> code, cause |-> cause, msg |-> msg]

NoErr == Err("", "", "", <<>>)

Variants == {"server", "api"}

(***************************************************************************)
(* Program constants.                                                      *)
(***************************************************************************)
maxRetries == 3

BackoffUnit == 2000

ServerMaxAttempts == 60

ApiMaxAttempts == 30

\* videoLength || 15, and the width of the duration window
DefaultVideoLength == 15

WindowSeconds == 5

MaxAttemptsOf(v) == IF v = "server" THEN ServerMaxAttempts ELSE ApiMaxAttempts

MaxAttemptsText(v) == IF v = "server" THEN "60" ELSE "30"

(***************************************************************************)
(* Environment: the process environment variables the clients read.        *)
(* HF_CREDENTIALS is kept as the parts of credentials.split(':'); the      *)
(* empty sequence is an unset (or empty) variable.                         *)
(***************************************************************************)
MkEnv(c, k, sec) == [HF_CREDENTIALS |-> c, HF_API_KEY |-> k, HF_API_SECRET |-> sec]

Envs ==
    {MkEnv(<<>>, "", ""), MkEnv(<<>>, "K", "S"), MkEnv(<<>>, "K", ""),
     MkEnv(<<"k", "s">>, "", ""), MkEnv(<<"k">>, "", "")}

credentials(env) ==
    IF env.HF_CREDENTIALS # <<>> THEN env.HF_CREDENTIALS
    ELSE IF env.HF_API_KEY # "" /\ env.HF_API_SECRET # ""
         THEN <<env.HF_API_KEY, env.HF_API_SECRET>>
         ELSE <<>>

Part(parts, i) == IF i <= Len(parts) THEN parts[i] ELSE ""

apiKey(env) == Or(env.HF_API_KEY, Part(credentials(env), 1))

apiSecret(env) == Or(env.HF_API_SECRET, Part(credentials(env), 2))

MissingCredentialsMsg == <<"Higgsfield credentials not configured">>

\* the credential check of generateImage (both variants) and of the api
\* variant's generateVideo
KeyPairCheckFails(env) == apiKey(env) = "" \/ apiSecret(env) = ""

\* the credential check of the server variant's generateVideo
CredentialsCheckFails(env) == credentials(env) = <<>>

CredentialCheckFails(v, f, env) ==
    IF f = "generateVideo" /\ v = "server"
    THEN CredentialsCheckFails(env)
    ELSE KeyPairCheckFails(env)

(***************************************************************************)
(* Provider responses.                                                     *)
(***************************************************************************)
Num == [t |-> "num", s |-> "", url |-> "", image_url |-> ""]

Truthy(v) ==
    CASE v.t = "undef" -> FALSE
      [] v.t = "str"   -> v.s # ""
      [] OTHER         -> TRUE

OrVal(a, b) == IF Truthy(a) THEN a ELSE b

\* the largest images array the provider sends
MaxImages == 2

\* an element of an images array: a URL string, an object with url, an object
\* with image_url, or an object carrying neither
Items == {Str("u1"), Str("u2"), Obj("u3", ""), Obj("", "u4"), Obj("", "")}

ImgLists ==
    {<<>>} \cup {<<i>> : i \in Items \ {Str("u2")}}
           \cup (IF MaxImages >= 2 THEN {<<Str("u1"), Str("u2")>>} ELSE {})
           \cup (IF MaxImages >= 3 THEN {<<Obj("u3", ""), Str("u1"), Str("u2")>>} ELSE {})

UrlPairs == {<<"", "">>, <<"u5", "">>, <<"", "u6">>}

IdPairs == {<<Undef, Undef>>, <<Str("abc"), Undef>>, <<Undef, Str("xyz")>>, <<Num, Undef>>}

ProviderTexts == {<<"invalid", "prompt">>, <<"gateway", "timeout">>}

SubBase ==
    [kind |-> "json", httpStatus |-> "200", bodyJson |-> FALSE,
     error |-> <<>>, message |-> <<>>, text |-> <<>>,
     images |-> <<>>, url |-> "", image_url |-> "",
     request_id |-> Undef, id |-> Undef, extra |-> <<>>, items |-> <<>>,
     cause |-> ""]

\* fetch rejects: the 30 s AbortController fired, or the connection failed
SubThrows ==
    {[SubBase EXCEPT !.kind = "abort"]}
    \cup {[SubBase EXCEPT !.kind = "netfail", !.cause = c] :
            c \in {"UND_ERR_CONNECT_TIMEOUT", "ECONNREFUSED"}}

\* a non-OK HTTP response with its body: JSON with error/message, or text
SubHttpErrors ==
    {[SubBase EXCEPT !.kind = "http", !.httpStatus = st, !.bodyJson = TRUE,
                     !.error = e, !.message = m] :
        st \in {"400", "504"}, e \in {<<>>} \cup ProviderTexts, m \in {<<>>, <<"invalid", "prompt">>}}
    \cup {[SubBase EXCEPT !.kind = "http", !.httpStatus = st, !.text = t] :
        st \in {"400", "504"}, t \in {<<>>} \cup ProviderTexts}

\* an OK response whose body is a JSON object
SubObjects ==
    {r \in {[SubBase EXCEPT !.images = im, !.url = up[1], !.image_url = up[2],
                            !.request_id = ids[1], !.id = ids[2], !.extra = ex] :
               im \in ImgLists, up \in UrlPairs, ids \in IdPairs,
               ex \in {<<>>, <<"timeout">>}} :
        /\ r.extra # <<>> => (r.images = <<>> /\ r.url = "" /\ r.image_url = ""
                              /\ ~Truthy(r.request_id) /\ ~Truthy(r.id))
        /\ Truthy(r.id) => r.images = <<>>}

\* an OK response whose body is a JSON array, or is not JSON at all
SubArrays ==
    {[SubBase EXCEPT !.kind = "array", !.items = it] :
        it \in {<<>>, <<Str("u1")>>, <<Obj("u3", "")>>, <<Obj("", "u4")>>}}

SubBadJson == {[SubBase EXCEPT !.kind = "badjson"]}

SubResponses == SubThrows \cup SubHttpErrors \cup SubObjects \cup SubArrays \cup SubBadJson

PollBase ==
    [kind |-> "json", httpStatus |-> "200", status |-> "in_progress",
     images |-> <<>>, url |-> "", image_url |-> "", error |-> <<>>, message |-> <<>>]

PendingStatuses == {"queued", "in_progress"}

TerminalStatuses == {"completed", "failed", "nsfw"}

PollPending == {[PollBase EXCEPT !.status = st] : st \in PendingStatuses \cup {"processing"}}

PollCompleted ==
    {[PollBase EXCEPT !.status = "completed", !.images = im] : im \in ImgLists}
    \cup {[PollBase EXCEPT !.status = "completed", !.url = "u5", !.image_url = "u6"]}

PollFailed ==
    {[PollBase EXCEPT !.status = "failed", !.error = em[1], !.message = em[2]] :
        em \in {<< <<>>, <<>> >>,
                 << <<>>, <<"gateway", "timeout">> >>,
                 << <<"out", "of", "credit">>, <<"invalid", "prompt">> >>}}

PollNsfw == {[PollBase EXCEPT !.status = "nsfw"]}

PollTransport ==
    {[PollBase EXCEPT !.kind = "netfail", !.status = ""],
     [PollBase EXCEPT !.kind = "http", !.httpStatus = "500", !.status = ""]}

PollResponses == PollPending \cup PollCompleted \cup PollFailed \cup PollNsfw \cup PollTransport

NoPoll == [PollBase EXCEPT !.kind = "none", !.status = ""]

NoSub == [SubBase EXCEPT !.kind = "none"]

IsPending(r) == r.kind = "json" /\ r.status \in PendingStatuses

IsTransient(r) == r.kind \in {"abort", "netfail"}

(***************************************************************************)
(* What a rejected fetch throws.                                           *)
(***************************************************************************)
FetchError(r) ==
    IF r.kind = "abort"
    THEN Err("AbortError", "", "", <<"This operation was aborted">>)
    ELSE Err("TypeError", "", r.cause, <<"fetch failed">>)

\* JSON.stringify(result) as far as its text matters: the free-text field
Stringify(r) == r.extra

(***************************************************************************)
(* The result of one pass through a try block: return a value, throw,      *)
(* start polling, or fall through to the wait at the end of the loop body. *)
(***************************************************************************)
Return(u) == [kind |-> "return", url |-> u, requestId |-> "", err |-> NoErr]

ReturnId(id) == [kind |-> "return", url |-> Undef, requestId |-> id, err |-> NoErr]

Throw(msg) == [kind |-> "throw", url |-> Undef, requestId |-> "", err |-> Err("Error", "", "", msg)]

ThrowErr(e) == [kind |-> "throw", url |-> Undef, requestId |-> "", err |-> e]

StartPoll(id) == [kind |-> "poll", url |-> Undef, requestId |-> id, err |-> NoErr]

Wait == [kind |-> "wait", url |-> Undef, requestId |-> "", err |-> NoErr]

(***************************************************************************)
(* generateImage: the body of the try block of one submission attempt,     *)
(* from the response of the POST to the point where it returns, throws or  *)
(* calls pollForImageStatus.  The two variants differ only in the message  *)
(* of the last throw.                                                      *)
(***************************************************************************)
\* the message of the error thrown for a non-OK response
HttpErrorMessage(r) ==
    LET dflt == <<"API request failed with status", r.httpStatus>>
    IN  IF r.bodyJson
        THEN OrMsg(r.error, OrMsg(r.message, dflt))
        ELSE OrMsg(r.text, dflt)

\* images[0] as a URL: the string itself, or the object's url || image_url
ItemUrl(it) == IF it.t = "str" THEN it.s ELSE Or(it.url, it.image_url)

UnrecognizedMessage(v, r) ==
    IF v = "server"
    THEN <<"Unexpected response format from API:">> \o Stringify(r)
    ELSE <<"Unrecognized response format from API">>

\* Format 1: direct image URLs in the response
Format1Applies(r) == r.kind = "json" /\ Len(r.images) > 0 /\ ItemUrl(r.images[1]) # ""

\* Format 2: single image URL
Format2Applies(r) == r.kind = "json" /\ (r.url # "" \/ r.image_url # "")

\* Format 3: request id for polling
Format3Applies(r) ==
    /\ r.kind = "json"
    /\ Truthy(r.request_id) \/ Truthy(r.id)
    /\ OrVal(r.request_id, r.id).t = "str"

\* Format 4: the result itself is an array of URLs
Format4Applies(r) == r.kind = "array" /\ Len(r.items) > 0

Format4Url(it) ==
    IF it.t = "str" THEN it
    ELSE IF it.url # "" THEN Str(it.url) ELSE Undef

\* SubmitTry with a fault: the request id is looked for before the direct URLs
SubmitTryIdFirst(v, r) ==
    CASE r.kind \in {"abort", "netfail"} -> ThrowErr(FetchError(r))
      [] r.kind = "http"    -> Throw(HttpErrorMessage(r))
      [] r.kind = "badjson" -> ThrowErr(Err("SyntaxError", "", "", <<"Unexpected token">>))
      [] OTHER ->
           IF Format3Applies(r) THEN StartPoll(OrVal(r.request_id, r.id).s)
           ELSE IF Format1Applies(r) THEN Return(Str(ItemUrl(r.images[1])))
           ELSE IF Format2Applies(r) THEN Return(Str(Or(r.url, r.image_url)))
           ELSE IF Format4Applies(r) THEN Return(Format4Url(r.items[1]))
           ELSE Throw(UnrecognizedMessage(v, r))

SubmitTry(v, r) ==
    CASE r.kind \in {"abort", "netfail"} -> ThrowErr(FetchError(r))
      [] r.kind = "http"    -> Throw(HttpErrorMessage(r))
      [] r.kind = "badjson" -> ThrowErr(Err("SyntaxError", "", "", <<"Unexpected token">>))
      [] OTHER ->
           IF Format1Applies(r) THEN Return(Str(ItemUrl(r.images[1])))
           ELSE IF Format2Applies(r) THEN Return(Str(Or(r.url, r.image_url)))
           ELSE IF Format3Applies(r) THEN StartPoll(OrVal(r.request_id, r.id).s)
           ELSE IF Format4Applies(r) THEN Return(Format4Url(r.items[1]))
           ELSE Throw(UnrecognizedMessage(v, r))

(***************************************************************************)
(* generateImage: the classification made in the catch block of the retry  *)
(* loop.                                                                   *)
(***************************************************************************)
ServerIsNetworkError(e) ==
    \/ e.name = "AbortError"
    \/ e.code = "UND_ERR_CONNECT_TIMEOUT"
    \/ Includes(e.msg, "timeout")
    \/ Includes(e.msg, "fetch failed")
    \/ e.cause = "UND_ERR_CONNECT_TIMEOUT"

ApiIsRetried(e) ==
    \/ e.name = "AbortError" \/ Includes(e.msg, "timeout")
    \/ Includes(e.msg, "fetch failed") \/ Includes(e.msg, "ECONNREFUSED")
    \/ Includes(e.msg, "ETIMEDOUT")

IsNetworkError(v, e) == IF v = "server" THEN ServerIsNetworkError(e) ELSE ApiIsRetried(e)

\* RetryAllowed with a fault: the last attempt is retried as well
RetryAlways(att) == att < maxRetries

\* the error is retried: the attempt is not the last one
RetryAllowed(att) == att < maxRetries - 1

\* the backoff slept before the next attempt
WaitTime(att) == (att + 1) * BackoffUnit

(***************************************************************************)
(* pollForImageStatus: the body of the try block of one polling attempt.   *)
(***************************************************************************)
\* server: status.images[0].url || status.images[0]
ServerPollUrl(it) == IF it.t = "obj" /\ it.url # "" THEN Str(it.url) ELSE it

ServerPollTry(r) ==
    CASE r.kind = "netfail" -> ThrowErr(Err("TypeError", "", "UND_ERR_SOCKET", <<"fetch failed">>))
      [] r.kind = "http" -> Throw(<<"Status check failed with status", r.httpStatus>>)
      [] OTHER ->
           IF r.status = "completed" /\ Len(r.images) > 0
           THEN Return(ServerPollUrl(r.images[1]))
           ELSE IF r.status = "failed"
           THEN Throw(OrMsg(r.error, OrMsg(r.message, <<"Image generation failed">>)))
           ELSE IF r.status = "nsfw"
           THEN Throw(<<"Content was flagged as NSFW">>)
           ELSE Wait

ApiPollTry(r) ==
    CASE r.kind = "netfail" -> ThrowErr(Err("TypeError", "", "UND_ERR_SOCKET", <<"fetch failed">>))
      [] r.kind = "http" -> Throw(<<"Status check failed with status", r.httpStatus>>)
      [] OTHER ->
           IF r.status = "completed"
           THEN IF Len(r.images) > 0 /\ ItemUrl(r.images[1]) # ""
                THEN Return(Str(ItemUrl(r.images[1])))
                ELSE IF r.image_url # "" \/ r.url # ""
                THEN Return(Str(Or(r.image_url, r.url)))
                ELSE Throw(<<"Completed but no image URL found in response">>)
           ELSE IF r.status \in {"failed", "nsfw"}
           THEN Throw(<<"Generation", r.status, ":">> \o OrMsg(r.message, <<"Unknown error">>))
           ELSE Wait

\* PollTry with a fault: the last image of the list is handed back
PollTryLastImage(v, r) ==
    LET t == IF v = "server" THEN ServerPollTry(r) ELSE ApiPollTry(r)
    IN  IF t.kind = "return" /\ Len(r.images) > 1
        THEN Return(Str(ItemUrl(r.images[Len(r.images)])))
        ELSE t

PollTry(v, r) == IF v = "server" THEN ServerPollTry(r) ELSE ApiPollTry(r)

\* PollRethrows with a fault: the comparison is off by one
PollRethrowsLate(v, att) == att = MaxAttemptsOf(v)

\* the catch block of the polling loop: an error is rethrown only when the
\* attempt is the last one
PollRethrows(v, att) == att = MaxAttemptsOf(v) - 1

\* what the catch block throws on the last attempt
PollRethrown(v, e) ==
    IF v = "server" THEN e
    ELSE Err("Error", "", "",
             <<"Failed to get image status after", MaxAttemptsText(v), "attempts:">> \o e.msg)

\* what is thrown after the loop
TimedOutError(v) ==
    IF v = "server"
    THEN Err("Error", "", "", <<"Image generation timed out">>)
    ELSE Err("Error", "", "", <<"Image generation timed out after", MaxAttemptsText(v), "attempts">>)

(***************************************************************************)
(* generateVideo.  The server variant awaits the SDK's                     *)
(* higgsfield.subscribe(..., withPolling: true), which is outside the      *)
(* repository: it settles with a V2Response of any status or rejects.  The *)
(* api variant makes one POST.                                             *)
(***************************************************************************)
VideoBase == [kind |-> "json", status |-> "", videoUrl |-> "", request_id |-> "", id |-> "", text |-> <<>>]

SubscribeResponses ==
    {[VideoBase EXCEPT !.kind = "throw"]}
    \cup {[VideoBase EXCEPT !.status = st, !.videoUrl = u, !.request_id = "abc"] :
            st \in {"completed", "failed", "nsfw", "in_progress"}, u \in {"", "v1"}}

VideoResponses ==
    {[VideoBase EXCEPT !.kind = "netfail"]}
    \cup {[VideoBase EXCEPT !.kind = "http", !.text = t] : t \in {<<>>} \cup ProviderTexts}
    \cup {[VideoBase EXCEPT !.videoUrl = u, !.request_id = ids[1], !.id = ids[2]] :
            u \in {"", "v1"}, ids \in {<<"", "">>, <<"abc", "">>, <<"", "xyz">>}}

ServerVideoTry(r) ==
    IF r.kind = "throw" THEN Throw(<<"subscribe rejected">>)
    ELSE IF r.status = "completed" /\ r.videoUrl # ""
    THEN [Return(Str(r.videoUrl)) EXCEPT !.requestId = r.request_id]
    ELSE IF r.status = "failed" THEN Throw(<<"Video generation failed">>)
    ELSE IF r.status = "nsfw" THEN Throw(<<"Content was flagged as NSFW">>)
    ELSE Throw(<<"Video generation did not complete successfully. Status:", r.status>>)

ApiVideoTry(r) ==
    IF r.kind = "netfail" THEN ThrowErr(Err("TypeError", "", "ECONNREFUSED", <<"fetch failed">>))
    ELSE IF r.kind = "http" THEN Throw(<<"API request failed:">> \o r.text)
    ELSE IF r.videoUrl # "" THEN Return(Str(r.videoUrl))
    ELSE IF r.request_id # "" \/ r.id # "" THEN ReturnId(Or(r.request_id, r.id))
    ELSE Throw(<<"No video URL or request ID in response">>)

(***************************************************************************)
(* The project store: MemStorage and LocalFileStorage.                     *)
(*                                                                         *)
(* A project record is kept with the fields the operations below read or   *)
(* write.  Text and boolean fields hold strings ("true", "false", "null",  *)
(* a text); Undefined is a key the object does not have; Omitted is a key  *)
(* an input or a patch body does not name.  createdAt is a Date object or, *)
(* after a JSON body wrote it, a string.                                   *)
(***************************************************************************)
StorageKinds == {"MemStorage", "LocalFileStorage"}

Null == "null"

Undefined == "undefined"

Omitted == "omitted"

\* the Date object of instant t
DateAt(t) == [t |-> "date", v |-> t]

\* a JSON string: the ISO form of instant t, or (t < 0) a text that is no date
StringAt(t) == [t |-> "string", v |-> t]

NoCreatedAt == [t |-> "omitted", v |-> 0]

\* new Date(c).getTime(): NaN for a text that is no date
IsNaN(c) == c.v < 0

getTime(c) == c.v

Keys ==
    {"id", "title", "script", "hookGenerated", "hook", "hookUrl",
     "imageGenerated", "imageUrl", "enhancedImagePrompt", "createdAt"}

\* the value that stands for "this key is not named"
OmittedOf(k) ==
    CASE k = "id" -> 0
      [] k = "createdAt" -> NoCreatedAt
      [] OTHER -> Omitted

Named(updates, k) == updates[k] # OmittedOf(k)

NoFields == [k \in Keys |-> OmittedOf(k)]

\* a ?? d
Nullish(a, d) == IF a \in {Omitted, Undefined, Null} THEN d ELSE a

\* the record createProject builds; MemStorage does not copy the hook, hookUrl,
\* imageUrl and enhancedImagePrompt keys
NewProject(kind, id, insertProject, t) ==
    [id |-> id,
     title |-> insertProject.title,
     script |-> Nullish(insertProject.script, Null),
     hookGenerated |-> Nullish(insertProject.hookGenerated, "false"),
     hook |-> IF kind = "MemStorage" THEN Undefined ELSE Nullish(insertProject.hook, Null),
     hookUrl |-> IF kind = "MemStorage" THEN Undefined ELSE Nullish(insertProject.hookUrl, Null),
     imageGenerated |-> Nullish(insertProject.imageGenerated, "false"),
     imageUrl |-> IF kind = "MemStorage" THEN Undefined ELSE Nullish(insertProject.imageUrl, Null),
     enhancedImagePrompt |->
        IF kind = "MemStorage" THEN Undefined
        ELSE Nullish(insertProject.enhancedImagePrompt, Null),
     createdAt |-> DateAt(t)]

\* the object has key k
HasKey(rec, k) ==
    IF k \in {"id", "createdAt"} THEN rec[k] # OmittedOf(k)
    ELSE rec[k] \notin {Omitted, Undefined}

\* Merge with a fault: { ...updates, ...existing }, the existing record wins
MergeExistingWins(existing, updates) ==
    [k \in Keys |-> IF HasKey(existing, k) THEN existing[k] ELSE updates[k]]

\* Merge with a fault: { ...updates }, the existing record is dropped
MergeReplaces(existing, updates) == updates

\* { ...existing, ...updates }
Merge(existing, updates) ==
    [k \in Keys |-> IF Named(updates, k) THEN updates[k] ELSE existing[k]]

\* saveData: every project is converted before the file is written;
\* createdAt.toISOString() throws for a createdAt that is no Date object, the
\* catch logs it and the file keeps its content
SaveThrows(projs) == \E i \in DOMAIN projs : projs[i].createdAt.t # "date"

ToSave(project) == [project EXCEPT !.createdAt = StringAt(project.createdAt.v)]

NoFile == [exists |-> FALSE, projects |-> <<>>, projectIdCounter |-> 0]

\* JSON.stringify leaves out the keys whose value is undefined
Written(object) ==
    [k \in Keys |-> IF k \notin {"id", "createdAt"} /\ object[k] = Undefined
                    THEN Omitted ELSE object[k]]

saveData(kind, projs, counter, file) ==
    IF kind = "MemStorage" \/ SaveThrows(projs) THEN file
    ELSE [exists |-> TRUE,
          projects |-> [i \in DOMAIN projs |-> Written(ToSave(projs[i]))],
          projectIdCounter |-> counter]

\* new Date(createdAt) of a parsed project: an Invalid Date for a text that
\* is no date and for a missing createdAt
NewDate(c) == IF c.t = "omitted" THEN DateAt(-1) ELSE DateAt(c.v)

\* loadData: the constructor's read of the storage file
loadData(file) ==
    IF ~file.exists
    THEN [projects |-> [i \in {} |-> NoFields], projectIdCounter |-> 1]
    ELSE [projects |->
            [i \in DOMAIN file.projects |->
               [file.projects[i] EXCEPT !.createdAt = NewDate(@)]],
          projectIdCounter |->
            IF file.projectIdCounter = 0 THEN 1 ELSE file.projectIdCounter]

(***************************************************************************)
(* State.                                                                  *)
(***************************************************************************)
VARIABLES
    variant,      \* which client file is deployed
    env,          \* the environment variables of the process
    fn,           \* the exported function that was called
    pc,           \* "idle", "submit", "poll", "video", "done"
    attempt,      \* generateImage: index of the retry loop
    pollAttempt,  \* pollForImageStatus: index of the polling loop
    nSubmit,      \* POST requests issued by the call
    nSubscribe,   \* SDK subscribe calls issued by the call
    runQueries,   \* status queries issued by the latest polling run (0: none was started)
    runWaits,     \* interval waits slept by the latest polling run
    backoffs,     \* the backoff waits slept by the retry loop, in ms
    lastSub,      \* the last submission response
    lastPoll,     \* the last status response
    pendingBefore,\* every status response of the run before the last one was queued/in_progress
    transientBefore, \* every submission before the last one ended in a rejected fetch
    firstTerminal,\* the first completed/failed/nsfw status of the run, "" if none yet
    pollOutcome,  \* how the promise of pollForImageStatus settled
    outcome       \* how the promise of the exported function settled

VARIABLES
    storage,          \* the class of the exported storage object
    projects,         \* the projects map: id -> record
    projectIdCounter, \* the id the next createProject assigns
    file,             \* the content of the storage file
    now,              \* the instant the clock last showed
    created,          \* for every id ever assigned, the record createProject returned;
                      \* once the id was updated or deleted, only its id and createdAt
    inflight,         \* PATCH requests whose handler is suspended at its await
    calls,            \* the updateProject calls made since no PATCH was suspended
    uploads,          \* the names of the files in the uploads directory
    last              \* the last finished request: route, id, store result, response;
                      \* turn alternates with every finished request

proxyVars ==
    <<variant, env, fn, pc, attempt, pollAttempt, nSubmit, nSubscribe,
      runQueries, runWaits, backoffs, lastSub, lastPoll, pendingBefore,
      transientBefore, firstTerminal, pollOutcome, outcome>>

storeVars ==
    <<storage, projects, projectIdCounter, file, now, created, inflight,
      calls, uploads, last>>

VARIABLES
    openaiApiKey,     \* process.env.AI_INTEGRATIONS_OPENAI_API_KEY, "" when unset
    generated,        \* the last POST /api/generate-script: request, template, response
    appInitialized,   \* api/index.ts: the routes are registered
    initPromise,      \* api/index.ts: "null", or the state of the promise it holds
    initError,        \* api/index.ts: "null", or the cached error
    registerRuns,     \* how often registerRoutes was run
    errorHandlers,    \* how often the error handler was installed
    requests,         \* the invocations of the Vercel handler, in order of arrival
    clock             \* the time, in ms

serviceVars ==
    <<openaiApiKey, generated, appInitialized, initPromise, initError,
      registerRuns, errorHandlers, requests, clock>>

vars == <<proxyVars, storeVars, serviceVars>>

\* no script was requested yet
NoScript ==
    [videoLength |-> 0, tone |-> "", upstream |-> "none", errorStatus |-> 0,
     template |-> [from |-> 0, to |-> 0, words |-> 0, tone |-> ""],
     status |-> 0, body |-> "none", turn |-> 0]

\* the module scope of api/index.ts after loading, and no script request
ServiceIdle ==
    /\ openaiApiKey = ""
    /\ generated = NoScript
    /\ appInitialized = FALSE
    /\ initPromise = "null"
    /\ initError = "null"
    /\ registerRuns = 0
    /\ errorHandlers = 0
    /\ requests = <<>>
    /\ clock = 0

Settled(kind, u, id, e) == [kind |-> kind, url |-> u, requestId |-> id, err |-> e]

Unsettled == Settled("none", Undef, "", NoErr)

Resolved(t) == Settled("ok", t.url, t.requestId, NoErr)

Rejected(e) == Settled("error", Undef, "", e)

NoEnv == MkEnv(<<>>, "", "")

\* a request that is no request: the value of last before any request finished
NoRequest ==
    [op |-> "none", by |-> "", id |-> 0, body |-> NoFields, found |-> FALSE,
     value |-> NoFields, list |-> <<>>, status |-> 0, turn |-> 0]

NoProjects == [i \in {} |-> NoFields]

\* the store before any request: a new MemStorage, or a LocalFileStorage that
\* found no storage file
StoreIdle ==
    /\ projects = NoProjects
    /\ projectIdCounter = 1
    /\ file = NoFile
    /\ now = 1
    /\ created = NoProjects
    /\ inflight = <<>>
    /\ calls = <<>>
    /\ uploads = {}
    /\ last = NoRequest

Init ==
    /\ storage = "MemStorage"
    /\ StoreIdle
    /\ ServiceIdle
    /\ variant \in Variants
    /\ env = NoEnv
    /\ fn = "none"
    /\ pc = "idle"
    /\ attempt = 0
    /\ pollAttempt = 0
    /\ nSubmit = 0
    /\ nSubscribe = 0
    /\ runQueries = 0
    /\ runWaits = 0
    /\ backoffs = <<>>
    /\ lastSub = NoSub
    /\ lastPoll = NoPoll
    /\ pendingBefore = TRUE
    /\ transientBefore = TRUE
    /\ firstTerminal = ""
    /\ pollOutcome = Unsettled
    /\ outcome = Unsettled

pollVars == <<pollAttempt, runQueries, runWaits, lastPoll, pendingBefore, firstTerminal, pollOutcome>>

\* generateImage / generateVideo up to the credential check
Call(f, e) ==
    /\ UNCHANGED <<storeVars, serviceVars>>
    /\ pc = "idle"
    /\ fn' = f
    /\ env' = e
    /\ IF CredentialCheckFails(variant, f, e)
       THEN /\ pc' = "done"
            /\ outcome' = Rejected(Err("Error", "", "", MissingCredentialsMsg))
       ELSE /\ pc' = IF f = "generateImage" THEN "submit" ELSE "video"
            /\ outcome' = outcome
    /\ UNCHANGED <<variant, attempt, nSubmit, nSubscribe, backoffs, lastSub, transientBefore>>
    /\ UNCHANGED pollVars

\* generateImage: the catch block of the retry loop, and the outer catch
\* that rethrows
Caught(e) ==
    IF IsNetworkError(variant, e) /\ RetryAllowed(attempt)
    THEN /\ backoffs' = Append(backoffs, WaitTime(attempt))
         /\ attempt' = attempt + 1
         /\ pc' = "submit"
         /\ outcome' = outcome
    ELSE /\ pc' = "done"
         /\ outcome' = Rejected(e)
         /\ UNCHANGED <<backoffs, attempt>>

\* generateImage: one iteration of the retry loop, from the POST to the
\* return, the call of pollForImageStatus, or the end of the catch block
SubmitAttempt(r) ==
    /\ UNCHANGED <<storeVars, serviceVars>>
    /\ pc = "submit"
    /\ nSubmit' = nSubmit + 1
    /\ lastSub' = r
    /\ transientBefore' = (transientBefore /\ (lastSub = NoSub \/ IsTransient(lastSub)))
    /\ LET t == SubmitTry(variant, r) IN
         CASE t.kind = "return" ->
                /\ pc' = "done"
                /\ outcome' = Resolved(t)
                /\ UNCHANGED <<backoffs, attempt>>
                /\ UNCHANGED pollVars
           [] t.kind = "poll" ->
                /\ pc' = "poll"
                /\ pollAttempt' = 0
                /\ runQueries' = 0
                /\ runWaits' = 0
                /\ lastPoll' = NoPoll
                /\ pendingBefore' = TRUE
                /\ firstTerminal' = ""
                /\ pollOutcome' = Unsettled
                /\ UNCHANGED <<backoffs, attempt, outcome>>
           [] OTHER ->
                /\ Caught(t.err)
                /\ UNCHANGED pollVars
    /\ UNCHANGED <<variant, env, fn, nSubscribe>>

\* pollForImageStatus: one iteration of the polling loop, from the GET to
\* the return, the rethrow, or the end of the wait; when the loop ends the
\* promise settles and generateImage continues in its own catch block
PollAttempt(r) ==
    /\ UNCHANGED <<storeVars, serviceVars>>
    /\ pc = "poll"
    /\ runQueries' = runQueries + 1
    /\ lastPoll' = r
    /\ pendingBefore' = (pendingBefore /\ (lastPoll = NoPoll \/ IsPending(lastPoll)))
    /\ firstTerminal' = IF firstTerminal = "" /\ r.kind = "json" /\ r.status \in TerminalStatuses
                        THEN r.status ELSE firstTerminal
    /\ LET t == PollTry(variant, r) IN
         CASE t.kind = "return" ->
                /\ pollOutcome' = Resolved(t)
                /\ pc' = "done"
                /\ outcome' = Resolved(t)
                /\ UNCHANGED <<pollAttempt, runWaits, backoffs, attempt>>
           [] t.kind = "throw" /\ PollRethrows(variant, pollAttempt) ->
                /\ pollOutcome' = Rejected(PollRethrown(variant, t.err))
                /\ Caught(PollRethrown(variant, t.err))
                /\ UNCHANGED <<pollAttempt, runWaits>>
           [] t.kind = "throw" /\ ~PollRethrows(variant, pollAttempt) ->
                /\ runWaits' = runWaits + 1
                /\ pollAttempt' = pollAttempt + 1
                /\ UNCHANGED <<pollOutcome, pc, outcome, backoffs, attempt>>
           [] OTHER ->
                /\ runWaits' = runWaits + 1
                /\ pollAttempt' = pollAttempt + 1
                /\ IF pollAttempt + 1 < MaxAttemptsOf(variant)
                   THEN UNCHANGED <<pollOutcome, pc, outcome, backoffs, attempt>>
                   ELSE /\ pollOutcome' = Rejected(TimedOutError(variant))
                        /\ Caught(TimedOutError(variant))
    /\ UNCHANGED <<variant, env, fn, nSubmit, nSubscribe, lastSub, transientBefore>>

\* server generateVideo after the credential check
VideoSubscribe(r) ==
    /\ UNCHANGED <<storeVars, serviceVars>>
    /\ pc = "video"
    /\ variant = "server"
    /\ nSubscribe' = nSubscribe + 1
    /\ LET t == ServerVideoTry(r) IN
         outcome' = IF t.kind = "return" THEN Resolved(t) ELSE Rejected(t.err)
    /\ pc' = "done"
    /\ UNCHANGED <<variant, env, fn, attempt, nSubmit, backoffs, lastSub, transientBefore>>
    /\ UNCHANGED pollVars

\* api generateVideo after the credential check
VideoSubmit(r) ==
    /\ UNCHANGED <<storeVars, serviceVars>>
    /\ pc = "video"
    /\ variant = "api"
    /\ nSubmit' = nSubmit + 1
    /\ LET t == ApiVideoTry(r) IN
         outcome' = IF t.kind = "return" THEN Resolved(t) ELSE Rejected(t.err)
    /\ pc' = "done"
    /\ UNCHANGED <<variant, env, fn, attempt, nSubscribe, backoffs, lastSub, transientBefore>>
    /\ UNCHANGED pollVars

Next ==
    \/ \E f \in {"generateImage", "generateVideo"}, e \in Envs : Call(f, e)
    \/ \E r \in SubResponses : SubmitAttempt(r)
    \/ \E r \in PollResponses : PollAttempt(r)
    \/ \E r \in SubscribeResponses : VideoSubscribe(r)
    \/ \E r \in VideoResponses : VideoSubmit(r)

Spec == Init /\ [][Next]_vars

(***************************************************************************)
(* The project store: the storage methods.  Each takes the projects map    *)
(* and returns the map it leaves and the value it returns.                 *)
(***************************************************************************)
\* the most projects ever created, and the last instant of the clock
MaxProjects == 2

MaxTime == 2

Put(projs, id, project) ==
    [i \in DOMAIN projs \cup {id} |-> IF i = id THEN project ELSE projs[i]]

Remove(projs, id) == [i \in DOMAIN projs \ {id} |-> projs[i]]

\* createProject with a fault: the record returned is built before the
\* default of script is filled in
createProjectReturnsInput(kind, projs, counter, insertProject, t) ==
    LET project == NewProject(kind, counter, insertProject, t)
    IN  [projects |-> Put(projs, counter, project),
         projectIdCounter |-> counter + 1,
         value |-> [project EXCEPT !.script = insertProject.script]]

createProject(kind, projs, counter, insertProject, t) ==
    LET project == NewProject(kind, counter, insertProject, t)
    IN  [projects |-> Put(projs, counter, project),
         projectIdCounter |-> counter + 1,
         value |-> project]

getProject(projs, id) ==
    IF id \in DOMAIN projs
    THEN [found |-> TRUE, value |-> projs[id]]
    ELSE [found |-> FALSE, value |-> NoFields]

\* updateProject with a fault: an absent id is not reported, the patch is
\* stored as a new record
updateProjectUpserts(projs, id, updates) ==
    LET updated == IF id \in DOMAIN projs THEN Merge(projs[id], updates) ELSE updates
    IN  [projects |-> Put(projs, id, updated), found |-> TRUE, value |-> updated]

updateProject(projs, id, updates) ==
    IF id \notin DOMAIN projs
    THEN [projects |-> projs, found |-> FALSE, value |-> NoFields]
    ELSE LET updated == Merge(projs[id], updates)
         IN  [projects |-> Put(projs, id, updated), found |-> TRUE, value |-> updated]

\* deleteProject with a fault: the result of the delete operator is returned,
\* which is true for an absent key too
deleteProjectAlwaysTrue(projs, id) ==
    [projects |-> Remove(projs, id), value |-> TRUE]

deleteProject(projs, id) ==
    IF id \notin DOMAIN projs
    THEN [projects |-> projs, value |-> FALSE]
    ELSE [projects |-> Remove(projs, id), value |-> TRUE]

\* the comparator of getProjects: new Date(b.createdAt).getTime() -
\* new Date(a.createdAt).getTime(); a NaN difference is taken as 0 by sort.
\* Negative: a goes first.
Before(a, b) ==
    /\ ~IsNaN(a.createdAt) /\ ~IsNaN(b.createdAt)
    /\ getTime(b.createdAt) - getTime(a.createdAt) < 0

Tied(a, b) == ~Before(a, b) /\ ~Before(b, a)

\* Array.prototype.sort requires a consistent comparator: being tied must be
\* transitive.  Otherwise the order of the result is implementation-defined.
ConsistentComparator(projs) ==
    \A i, j, k \in DOMAIN projs :
        Tied(projs[i], projs[j]) /\ Tied(projs[j], projs[k]) => Tied(projs[i], projs[k])

Orders(ids) ==
    {s \in [1..Cardinality(ids) -> ids] : \A i \in ids : \E n \in DOMAIN s : s[n] = i}

\* the stable sort of the values in key order (ids ascending in both stores)
StableOrder(projs, s) ==
    \A m, n \in DOMAIN s :
        m < n => \/ Before(projs[s[m]], projs[s[n]])
                 \/ Tied(projs[s[m]], projs[s[n]]) /\ s[m] < s[n]

\* getProjects: the lists it can return
getProjects(projs) ==
    {[n \in DOMAIN s |-> projs[s[n]]] :
        s \in {o \in Orders(DOMAIN projs) :
                 ConsistentComparator(projs) => StableOrder(projs, o)}}

(***************************************************************************)
(* The project store: requests.                                            *)
(***************************************************************************)
Body(title, script) == [NoFields EXCEPT !.title = title, !.script = script]

\* request bodies of POST /api/projects; the last one lacks a required field
CreateBodies == {Body("a", Omitted), Body("a", "x"), Body(Omitted, "x")}

\* SchemaAccepts with a fault: no field is required
SchemaAcceptsAll(body) == TRUE

\* insertVideoProjectSchema.safeParse(body).success
SchemaAccepts(body) == Named(body, "title")

\* request bodies of PATCH /api/projects/:id: the route passes any JSON on
PatchBodies ==
    {NoFields,
     Body(Omitted, "x"),
     [NoFields EXCEPT !.id = 9, !.createdAt = StringAt(-1)]}

\* the ids a request can name
Ids == 1..MaxProjects

Finished(op, by, id, body, found, value, list, status) ==
    [op |-> op, by |-> by, id |-> id, body |-> body, found |-> found,
     value |-> value, list |-> list, status |-> status, turn |-> 1 - last.turn]

storeOnly == <<storage, inflight, calls, uploads>>

\* what is remembered of a created record once its id was updated or deleted
Touch(recs, id) ==
    [recs EXCEPT ![id] = [NoFields EXCEPT !.id = recs[id].id,
                                          !.createdAt = recs[id].createdAt]]

Untouched(id) == id \in DOMAIN created /\ created[id].title # Omitted

\* POST /api/projects
PostProject(body, t) ==
    /\ projectIdCounter <= MaxProjects
    /\ t \in {now, now + 1} /\ t <= MaxTime
    /\ IF ~SchemaAccepts(body)
       THEN /\ last' = Finished("POST", "", 0, body, FALSE, NoFields, <<>>, 400)
            /\ UNCHANGED <<projects, projectIdCounter, file, now, created>>
       ELSE LET c == createProject(storage, projects, projectIdCounter, body, t) IN
            /\ projects' = c.projects
            /\ projectIdCounter' = c.projectIdCounter
            /\ file' = saveData(storage, c.projects, c.projectIdCounter, file)
            /\ now' = t
            /\ created' = Put(created, c.value.id, c.value)
            /\ last' = Finished("POST", "", c.value.id, body, TRUE, c.value, <<>>, 201)
    /\ UNCHANGED <<storeOnly, proxyVars, serviceVars>>

\* GET /api/projects
GetProjects ==
    /\ \E l \in getProjects(projects) :
         last' = Finished("GET list", "", 0, NoFields, TRUE, NoFields, l, 200)
    /\ UNCHANGED <<projects, projectIdCounter, file, now, created>>
    /\ UNCHANGED <<storeOnly, proxyVars, serviceVars>>

\* GET /api/projects/:id
GetProject(id) ==
    /\ LET g == getProject(projects, id) IN
         last' = Finished("GET", "", id, NoFields, g.found, g.value, <<>>,
                          IF g.found THEN 200 ELSE 404)
    /\ UNCHANGED <<projects, projectIdCounter, file, now, created>>
    /\ UNCHANGED <<storeOnly, proxyVars, serviceVars>>

\* PatchStatus with a fault: the not-found check is missing
PatchStatusAlwaysOk(found) == 200

\* the response of PATCH /api/projects/:id to what updateProject returned
PatchStatus(found) == IF found THEN 200 ELSE 404

\* PATCH /api/projects/:id, no other request running meanwhile
PatchProject(by, id, body) ==
    /\ inflight = <<>>
    /\ LET u == updateProject(projects, id, body) IN
         /\ projects' = u.projects
         /\ file' = IF u.found
                    THEN saveData(storage, u.projects, projectIdCounter, file)
                    ELSE file
         /\ created' = IF u.found THEN Touch(created, id) ELSE created
         /\ last' = Finished("PATCH", by, id, body, u.found, u.value, <<>>,
                             PatchStatus(u.found))
    /\ UNCHANGED <<projectIdCounter, now>>
    /\ UNCHANGED <<storeOnly, proxyVars, serviceVars>>

\* DELETE /api/projects/:id
DeleteProject(id) ==
    /\ LET d == deleteProject(projects, id) IN
         /\ projects' = d.projects
         /\ file' = IF d.value
                    THEN saveData(storage, d.projects, projectIdCounter, file)
                    ELSE file
         /\ created' = IF d.value THEN Touch(created, id) ELSE created
         /\ last' = Finished("DELETE", "", id, NoFields, d.value, NoFields, <<>>,
                             IF d.value THEN 204 ELSE 404)
    /\ UNCHANGED <<projectIdCounter, now>>
    /\ UNCHANGED <<storeOnly, proxyVars, serviceVars>>

ProxyIdle ==
    /\ variant = "server"
    /\ env = NoEnv /\ fn = "none" /\ pc = "idle"
    /\ attempt = 0 /\ pollAttempt = 0 /\ nSubmit = 0 /\ nSubscribe = 0
    /\ runQueries = 0 /\ runWaits = 0 /\ backoffs = <<>>
    /\ lastSub = NoSub /\ lastPoll = NoPoll
    /\ pendingBefore = TRUE /\ transientBefore = TRUE /\ firstTerminal = ""
    /\ pollOutcome = Unsettled /\ outcome = Unsettled

\* the most PATCH handlers suspended at once, and the most updateProject calls
\* followed while some handler is suspended
MaxInflight == 2

MaxCalls == 3

\* PATCH /api/projects/:id up to its await: parseInt, and the call of
\* storage.updateProject, whose body has no await and so runs to its return
PatchBegin(id, body) ==
    /\ Len(inflight) < MaxInflight
    /\ inflight # <<>> => Len(calls) < MaxCalls
    /\ LET u == updateProject(projects, id, body)
           c == [id |-> id, body |-> body, found |-> u.found,
                 existing |-> getProject(projects, id).value]
       IN
         /\ projects' = u.projects
         /\ file' = IF u.found
                    THEN saveData(storage, u.projects, projectIdCounter, file)
                    ELSE file
         /\ created' = IF u.found THEN Touch(created, id) ELSE created
         /\ inflight' = Append(inflight, [id |-> id, body |-> body,
                                          found |-> u.found, value |-> u.value])
         /\ calls' = IF inflight = <<>> THEN <<c>> ELSE Append(calls, c)
    /\ UNCHANGED <<storage, projectIdCounter, now, last, uploads, proxyVars, serviceVars>>

\* PATCH /api/projects/:id after its await: the response
PatchEnd(n) ==
    /\ n \in DOMAIN inflight
    /\ LET r == inflight[n] IN
         last' = Finished("PATCH", "", r.id, r.body, r.found, r.value, <<>>,
                          PatchStatus(r.found))
    /\ inflight' = [m \in 1..(Len(inflight) - 1) |->
                      IF m < n THEN inflight[m] ELSE inflight[m + 1]]
    /\ UNCHANGED <<storage, projects, projectIdCounter, file, now, created, calls,
                   uploads, proxyVars, serviceVars>>

StoreInit ==
    /\ storage \in StorageKinds
    /\ StoreIdle
    /\ ProxyIdle
    /\ ServiceIdle

StoreNext ==
    \/ \E body \in CreateBodies, t \in 1..MaxTime : PostProject(body, t)
    \/ GetProjects
    \/ \E id \in Ids : GetProject(id)
    \/ \E id \in Ids, body \in PatchBodies : PatchProject("", id, body)
    \/ \E id \in Ids : DeleteProject(id)

StoreSpec == StoreInit /\ [][StoreNext]_vars

\* the process is started again: new LocalFileStorage() reads the file
Restart ==
    /\ storage = "LocalFileStorage"
    /\ LET l == loadData(file) IN
         /\ projects' = l.projects
         /\ projectIdCounter' = l.projectIdCounter
    /\ last' = Finished("restart", "", 0, NoFields, FALSE, NoFields, <<>>, 0)
    /\ UNCHANGED <<file, now, created>>
    /\ UNCHANGED <<storeOnly, proxyVars, serviceVars>>

RestartInit == StoreInit /\ storage = "LocalFileStorage"

RestartNext ==
    \/ StoreNext
    \/ Restart

RestartSpec == RestartInit /\ [][RestartNext]_vars

(***************************************************************************)
(* The application's operations on the store: the create dialog, the image *)
(* generation success handler, the checklist of the project dialog, the    *)
(* hook upload and the delete button.                                      *)
(***************************************************************************)
\* the values the create dialog submits
DialogValues == {Body("a", Omitted)}

\* the JSON the image generation route answers with
ImageData ==
    {[url |-> "u", image_url |-> "", data |-> ""],
     [url |-> "", image_url |-> "", data |-> "b64"],
     [url |-> "", image_url |-> "", data |-> ""]}

\* data.url || data.image_url || (data.data ? `data:image/png;base64,${data.data}` : null)
ImageUrlOf(data) ==
    IF data.url # "" THEN data.url
    ELSE IF data.image_url # "" THEN data.image_url
    ELSE IF data.data = "b64" THEN "data:image/png;base64,b64"
    ELSE ""

\* ImageSuccessPatch with a fault: the flag is left to a later request
ImageSuccessPatchUrlOnly(imageUrl, imagePrompt) ==
    [NoFields EXCEPT !.imageUrl = imageUrl, !.enhancedImagePrompt = imagePrompt]

\* the body of the PATCH that generateImageMutation.onSuccess sends
ImageSuccessPatch(imageUrl, imagePrompt) ==
    [NoFields EXCEPT !.imageUrl = imageUrl, !.enhancedImagePrompt = imagePrompt,
                     !.imageGenerated = "true"]

\* generateImageMutation.onSuccess
ImageGenerated(id, data) ==
    LET imageUrl == ImageUrlOf(data) IN
      IF imageUrl = ""
      THEN UNCHANGED vars
      ELSE PatchProject("generateImageMutation", id, ImageSuccessPatch(imageUrl, "p"))

\* the checklist items whose flags the record keeps here
ChecklistKeys == {"hookGenerated", "imageGenerated"}

\* handleChecklistChange: updates = { [key]: checked }
ChecklistChange(id, key, checked) ==
    PatchProject("handleChecklistChange", id, [NoFields EXCEPT ![key] = checked])

\* the names multer can give an uploaded file, and the URL served for one
FileNames == {"hook-1.mp4"}

FileUrl(filename) ==
    CASE filename = "hook-1.mp4" -> "/uploads/hook-1.mp4"

HookPatch(filename, originalname) ==
    [NoFields EXCEPT !.hookUrl = FileUrl(filename), !.hook = originalname,
                     !.hookGenerated = "true"]

\* unlinkSync with a fault: the file is left where it is
unlinkSyncSkipped(files, filename) == files

\* fs.unlinkSync(req.file.path) on the files of the uploads directory
unlinkSync(files, filename) == files \ {filename}

\* POST /api/projects/:id/upload-hook: multer has stored the file (if the
\* request carried one) before the handler runs
UploadHook(id, filename) ==
    /\ filename \notin uploads
    /\ IF filename = ""
       THEN /\ last' = Finished("POST upload-hook", "", id, NoFields, FALSE, NoFields,
                                <<>>, 400)
            /\ UNCHANGED <<projects, file, created, uploads>>
       ELSE LET body == HookPatch(filename, "clip.mp4")
                u == updateProject(projects, id, body)
            IN
              /\ projects' = u.projects
              /\ file' = IF u.found
                         THEN saveData(storage, u.projects, projectIdCounter, file)
                         ELSE file
              /\ created' = IF u.found THEN Touch(created, id) ELSE created
              /\ uploads' = IF u.found
                            THEN uploads \cup {filename}
                            ELSE unlinkSync(uploads \cup {filename}, filename)
              /\ last' = Finished("POST upload-hook", "", id, body, u.found, u.value,
                                  <<>>, IF u.found THEN 200 ELSE 404)
    /\ UNCHANGED <<storage, projectIdCounter, now, inflight, calls, proxyVars, serviceVars>>

AppNext ==
    \/ \E values \in DialogValues, t \in 1..MaxTime : PostProject(values, t)
    \/ \E id \in Ids, data \in ImageData : ImageGenerated(id, data)
    \/ \E id \in Ids, key \in ChecklistKeys, checked \in {"true", "false"} :
         ChecklistChange(id, key, checked)
    \/ \E id \in Ids, filename \in FileNames \cup {""} : UploadHook(id, filename)
    \/ \E id \in Ids : DeleteProject(id)

AppSpec == StoreInit /\ [][AppNext]_vars

\* the store after one POST /api/projects on a new store
RaceInit ==
    /\ storage \in StorageKinds
    /\ \E body \in {b \in CreateBodies : SchemaAccepts(b)} :
         LET c == createProject(storage, NoProjects, 1, body, 1) IN
           /\ projects = c.projects
           /\ projectIdCounter = c.projectIdCounter
           /\ file = saveData(storage, c.projects, c.projectIdCounter, NoFile)
           /\ created = c.projects
           /\ last = [NoRequest EXCEPT !.op = "POST", !.id = c.value.id, !.body = body,
                                       !.found = TRUE, !.value = c.value,
                                       !.status = 201, !.turn = 1]
    /\ now = 1
    /\ inflight = <<>>
    /\ calls = <<>>
    /\ uploads = {}
    /\ ProxyIdle
    /\ ServiceIdle

\* PATCH requests that overlap each other
RaceNext ==
    \/ \E id \in Ids, body \in PatchBodies : PatchBegin(id, body)
    \/ \E n \in 1..MaxInflight : PatchEnd(n)

RaceSpec == RaceInit /\ [][RaceNext]_vars

(***************************************************************************)
(* POST /api/generate-script.  The handler builds the instruction template *)
(* from the request body and asks the chat completion API for a JSON       *)
(* object; without an API key it answers with canned content.              *)
(***************************************************************************)
\* the longest video a request asks for, in seconds
MaxVideoLength == 20

\* req.body.videoLength: 0 stands for a missing (or zero) value
VideoLengths == 0..MaxVideoLength

Tones == {"", "casual"}

\* what the chat completion call does: it throws an APIError that carries an
\* HTTP status, throws a connection error without one, or resolves with no
\* content, with text that is no JSON, or with a JSON object
Upstreams ==
    {[kind |-> "throw", status |-> 0], [kind |-> "throw", status |-> 401],
     [kind |-> "throw", status |-> 503], [kind |-> "empty", status |-> 0],
     [kind |-> "unparsable", status |-> 0], [kind |-> "object", status |-> 0]}

isOpenAIAvailable(key) == key # ""

\* a || b for a number
OrNumber(a, b) == IF a = 0 THEN b ELSE a

\* MathRound with a fault: the fraction is cut off
MathTrunc(num, den) == num \div den

\* Math.round(num / den) for num >= 0: the nearest integer, a half goes up
MathRound(num, den) == (2 * num + den) \div (2 * den)

\* the numbers and words the template literal of systemPrompt puts in:
\* videoLength * 2.5 is (videoLength * 5) / 2
systemPrompt(videoLength, tone) ==
    [from |-> OrNumber(videoLength, DefaultVideoLength),
     to |-> OrNumber(videoLength, DefaultVideoLength) + WindowSeconds,
     words |-> MathRound(OrNumber(videoLength, DefaultVideoLength) * 5, 2),
     tone |-> Or(tone, "professional")]

\* ErrorStatus with a fault: the error is answered as a success
ErrorStatusOk(status) == 200

\* error?.status || 500
ErrorStatus(status) == OrNumber(status, 500)

\* the handler: status and kind of body of the response
ScriptResponse(key, upstream) ==
    IF ~isOpenAIAvailable(key) THEN [status |-> 200, body |-> "dummy script"]
    ELSE CASE upstream.kind = "throw" ->
                [status |-> ErrorStatus(upstream.status), body |-> "error"]
           [] upstream.kind \in {"empty", "unparsable"} ->
                [status |-> ErrorStatus(0), body |-> "error"]
           [] OTHER -> [status |-> 200, body |-> "script"]

\* POST /api/generate-script
GenerateScript(videoLength, tone, upstream) ==
    /\ LET r == ScriptResponse(openaiApiKey, upstream) IN
         generated' =
            [videoLength |-> videoLength,
             tone |-> tone,
             upstream |-> IF isOpenAIAvailable(openaiApiKey) THEN upstream.kind ELSE "none",
             errorStatus |-> IF isOpenAIAvailable(openaiApiKey) THEN upstream.status ELSE 0,
             template |-> IF isOpenAIAvailable(openaiApiKey)
                          THEN systemPrompt(videoLength, tone)
                          ELSE NoScript.template,
             status |-> r.status,
             body |-> r.body,
             turn |-> 1 - generated.turn]
    /\ UNCHANGED <<openaiApiKey, appInitialized, initPromise, initError, registerRuns,
                   errorHandlers, requests, clock>>
    /\ UNCHANGED <<storeVars, proxyVars>>

ScriptInit ==
    /\ storage \in StorageKinds
    /\ StoreIdle
    /\ ProxyIdle
    /\ openaiApiKey \in {"", "key"}
    /\ generated = NoScript
    /\ appInitialized = FALSE /\ initPromise = "null" /\ initError = "null"
    /\ registerRuns = 0 /\ errorHandlers = 0 /\ requests = <<>> /\ clock = 0

ScriptNext ==
    \E videoLength \in VideoLengths, tone \in Tones, upstream \in Upstreams :
        GenerateScript(videoLength, tone, upstream)

ScriptSpec == ScriptInit /\ [][ScriptNext]_vars

(***************************************************************************)
(* The Vercel entry point, api/index.ts.  Every invocation of the exported *)
(* handler first awaits initializeApp, then hands the request to the       *)
(* Express app inside a promise that a 25 s timer, the response's finish   *)
(* and close events and Express's final callback settle.  The steps are    *)
(* the turns of the event loop: an invocation up to its first await, the   *)
(* end of registerRoutes, the continuation of a waiting invocation, a      *)
(* timer, an event of a response.                                          *)
(***************************************************************************)
\* the most invocations one process gets
MaxRequests == 2

\* the delay of the handler's timer, in ms
TimeoutMs == 25000

\* the step of the clock, and how many steps it makes
TickMs == TimeoutMs \div 2

MaxTicks == 2

\* an invocation: where its handler stands, its timer, its response, how the
\* promise the handler returned settled
NewRequest ==
    [pc |-> "new", waited |-> FALSE, timer |-> "none", due |-> 0,
     headersSent |-> FALSE, status |-> 0, message |-> "",
     finished |-> FALSE, closed |-> FALSE, next |-> "none",
     atFire |-> "", settled |-> "no"]

\* resolve(undefined) / reject(err): only the first call settles a promise
Settle(req, how) == IF req.settled = "no" THEN [req EXCEPT !.settled = how] ELSE req

\* clearTimeout with a fault: the timer stays armed
clearTimeoutSkipped(req) == req

\* clearTimeout(timeout): without effect on a timer that has fired
clearTimeout(req) == IF req.timer = "armed" THEN [req EXCEPT !.timer = "cleared"] ELSE req

\* the catch block of handler: only initializeApp's rejection reaches it
HandlerCatch(req, error) ==
    [req EXCEPT !.pc = "done",
                !.status = IF req.headersSent THEN @ ELSE 500,
                !.message = IF req.headersSent THEN @ ELSE error,
                !.headersSent = TRUE,
                !.settled = "resolved"]

\* the executor of the promise: the timer is set, the listeners are
\* registered and the Express app is called; thrown says that the call threw
Dispatched(req, thrown) ==
    LET armed == [req EXCEPT !.pc = "running", !.timer = "armed", !.due = clock + TimeoutMs]
    IN IF thrown THEN Settle(clearTimeout(armed), "rejected") ELSE armed

\* StartsInit with a fault: every invocation that finds the app
\* uninitialized starts registerRoutes
StartsInitAlways(promise) == TRUE

\* if (!initPromise)
StartsInit(promise) == promise = "null"

\* the catch block in initializeApp with a fault: the error is not cached
CaughtInitForgotten(err) == [initError |-> "null", initPromise |-> "null"]

\* the catch block in initializeApp: initError = err; initPromise = null
CaughtInit(err) == [initError |-> err, initPromise |-> "null"]

\* handler, from its call to the first turn of the event loop it gives up:
\* initializeApp throws the cached error, returns at once, or awaits the
\* promise, which it creates if there is none
Invoke(thrown) ==
    /\ Len(requests) < MaxRequests
    /\ IF initError # "null"
       THEN /\ requests' = Append(requests, HandlerCatch(NewRequest, initError))
            /\ UNCHANGED <<initPromise, registerRuns>>
       ELSE IF appInitialized
       THEN /\ requests' = Append(requests, Dispatched(NewRequest, thrown))
            /\ UNCHANGED <<initPromise, registerRuns>>
       ELSE /\ requests' = Append(requests, [NewRequest EXCEPT !.pc = "waiting",
                                                                !.waited = TRUE])
            /\ initPromise' = "pending"
            /\ registerRuns' = IF StartsInit(initPromise)
                                THEN registerRuns + 1 ELSE registerRuns
    /\ UNCHANGED <<openaiApiKey, generated, appInitialized, initError, errorHandlers, clock>>
    /\ UNCHANGED <<storeVars, proxyVars>>

\* the promise of initializeApp after registerRoutes returned: the error
\* handler is installed and appInitialized set
InitSucceeds ==
    /\ initPromise = "pending"
    /\ errorHandlers' = errorHandlers + 1
    /\ appInitialized' = TRUE
    /\ initPromise' = "fulfilled"
    /\ UNCHANGED <<openaiApiKey, generated, initError, registerRuns, requests, clock>>
    /\ UNCHANGED <<storeVars, proxyVars>>

\* the promise of initializeApp after registerRoutes threw: the catch block
\* runs and the promise rejects for every invocation that awaits it
InitFails(err) ==
    /\ initPromise = "pending"
    /\ initError' = CaughtInit(err).initError
    /\ initPromise' = CaughtInit(err).initPromise
    /\ requests' = [i \in DOMAIN requests |->
                      IF requests[i].pc = "waiting"
                      THEN [requests[i] EXCEPT !.pc = "rejected", !.message = err]
                      ELSE requests[i]]
    /\ UNCHANGED <<openaiApiKey, generated, appInitialized, registerRuns, errorHandlers, clock>>
    /\ UNCHANGED <<storeVars, proxyVars>>

\* handler after its await: initializeApp resolved
Dispatch(i, thrown) ==
    /\ i \in DOMAIN requests
    /\ requests[i].pc = "waiting"
    /\ initPromise = "fulfilled"
    /\ requests' = [requests EXCEPT ![i] = Dispatched(@, thrown)]
    /\ UNCHANGED <<openaiApiKey, generated, appInitialized, initPromise, initError,
                   registerRuns, errorHandlers, clock>>
    /\ UNCHANGED <<storeVars, proxyVars>>

\* handler after its await: initializeApp rejected
Catch(i) ==
    /\ i \in DOMAIN requests
    /\ requests[i].pc = "rejected"
    /\ requests' = [requests EXCEPT ![i] = HandlerCatch(@, @.message)]
    /\ UNCHANGED <<openaiApiKey, generated, appInitialized, initPromise, initError,
                   registerRuns, errorHandlers, clock>>
    /\ UNCHANGED <<storeVars, proxyVars>>

\* an event of the response of a request the Express app is working on
Running(i, change) ==
    /\ i \in DOMAIN requests
    /\ requests[i].pc = "running"
    /\ requests' = [requests EXCEPT ![i] = change]
    /\ UNCHANGED <<openaiApiKey, generated, appInitialized, initPromise, initError,
                   registerRuns, errorHandlers, clock>>
    /\ UNCHANGED <<storeVars, proxyVars>>

\* a route sends its response
Respond(i) ==
    /\ i \in DOMAIN requests
    /\ ~requests[i].headersSent /\ ~requests[i].closed /\ requests[i].next = "none"
    /\ Running(i, [requests[i] EXCEPT !.headersSent = TRUE, !.status = 200])

\* res.on('finish'): the response was handed to the network
Finish(i) ==
    /\ i \in DOMAIN requests
    /\ requests[i].headersSent /\ ~requests[i].finished /\ ~requests[i].closed
    /\ Running(i, Settle(clearTimeout([requests[i] EXCEPT !.finished = TRUE]), "resolved"))

\* res.on('close'): the connection ended, after the response or before it
Close(i) ==
    /\ i \in DOMAIN requests
    /\ ~requests[i].closed
    /\ Running(i, Settle(clearTimeout([requests[i] EXCEPT !.closed = TRUE]), "resolved"))

\* the callback given to app(req, res, ...): no route took the request, or
\* an error came up that the error handler passed on
NextCalled(i, err) ==
    /\ i \in DOMAIN requests
    /\ requests[i].next = "none" /\ ~requests[i].finished
    /\ err => requests[i].headersSent
    /\ ~err => ~requests[i].headersSent
    /\ Running(i, Settle(clearTimeout([requests[i] EXCEPT
                                          !.next = IF err THEN "error" ELSE "called"]),
                         IF err THEN "rejected" ELSE "resolved"))

\* the callback of setTimeout
TimerFires(i) ==
    /\ i \in DOMAIN requests
    /\ requests[i].timer = "armed" /\ requests[i].due = clock
    /\ Running(i, Settle([requests[i] EXCEPT
                             !.timer = "fired",
                             !.atFire = IF @ # "" THEN @
                                        ELSE IF requests[i].finished \/ requests[i].closed
                                        THEN "ended"
                                        ELSE IF requests[i].headersSent THEN "headers sent"
                                        ELSE "nothing sent",
                             !.status = IF requests[i].headersSent THEN @ ELSE 504,
                             !.message = IF requests[i].headersSent THEN @
                                         ELSE "Request timeout",
                             !.headersSent = TRUE],
                         "resolved"))

\* time passes; a timer that is due fires before time passes it
Tick ==
    /\ clock + TickMs <= MaxTicks * TickMs
    /\ \A i \in DOMAIN requests : requests[i].timer = "armed" => requests[i].due > clock
    /\ clock' = clock + TickMs
    /\ UNCHANGED <<openaiApiKey, generated, appInitialized, initPromise, initError,
                   registerRuns, errorHandlers, requests>>
    /\ UNCHANGED <<storeVars, proxyVars>>

VercelInit ==
    /\ storage = "LocalFileStorage"
    /\ StoreIdle
    /\ ProxyIdle
    /\ ServiceIdle

VercelNext ==
    \/ \E thrown \in BOOLEAN : Invoke(thrown)
    \/ InitSucceeds
    \/ \E err \in {"routes failed"} : InitFails(err)
    \/ \E i \in 1..MaxRequests, thrown \in BOOLEAN : Dispatch(i, thrown)
    \/ \E i \in 1..MaxRequests : Catch(i)
    \/ \E i \in 1..MaxRequests : Respond(i)
    \/ \E i \in 1..MaxRequests : Finish(i)
    \/ \E i \in 1..MaxRequests : Close(i)
    \/ \E i \in 1..MaxRequests, err \in BOOLEAN : NextCalled(i, err)
    \/ \E i \in 1..MaxRequests : TimerFires(i)
    \/ Tick

VercelSpec == VercelInit /\ [][VercelNext]_vars

(***************************************************************************)
(* Properties.                                                             *)
(***************************************************************************)
\* sub occurs in msg as a run of consecutive tokens
Surfaces(msg, sub) ==
    \E i \in 0 .. Len(msg) : i + Len(sub) <= Len(msg) /\ SubSeq(msg, i + 1, i + Len(sub)) = sub

PollSettled == pollOutcome.kind # "none"

\* the status response carries no asset URL: no image with a URL, no url field
NoAssetUrl(r) ==
    /\ Len(r.images) = 0 \/ ItemUrl(r.images[1]) = ""
    /\ r.url = "" /\ r.image_url = ""

\* the failures a caller can tell apart by their message
IsNsfwRejection(e) == Includes(e.msg, "Content was flagged as NSFW") \/ Includes(e.msg, "nsfw")

IsTimedOut(e) ==
    Len(e.msg) > 0 /\ e.msg[1] \in {"Image generation timed out", "Image generation timed out after"}

IsMalformed(e) == Includes(e.msg, "Completed but no image URL found in response")

\* C1: in pollForImageStatus a status response "failed" or "nsfw" is
\* terminal at whatever attempt it arrives: the polling promise rejects at
\* that poll (no further query, no further wait), and for "failed" the
\* rejection carries the provider's error message.
C1_FailedOrNsfwTerminal ==
    (lastPoll.kind = "json" /\ lastPoll.status \in {"failed", "nsfw"}) =>
        /\ pollOutcome.kind = "error"
        /\ pc # "poll"
        /\ lastPoll.status = "failed" =>
             Surfaces(pollOutcome.err.msg, OrMsg(lastPoll.error, lastPoll.message))

\* C2: a status response "completed" that carries no asset URL makes the
\* polling fail with a malformed-response error at that poll; the proxy does
\* not stay in polling.
C2_CompletedWithoutUrlFails ==
    (lastPoll.kind = "json" /\ lastPoll.status = "completed" /\ NoAssetUrl(lastPoll)) =>
        /\ pc # "poll"
        /\ pollOutcome.kind = "error"
        /\ IsMalformed(pollOutcome.err)

\* C3: a polling run whose first terminal status response is "nsfw" ends in
\* a content-policy rejection, which is neither a success nor the timeout.
C3_NsfwEndsRejected ==
    (PollSettled /\ firstTerminal = "nsfw") =>
        /\ pollOutcome.kind = "error"
        /\ IsNsfwRejection(pollOutcome.err)
        /\ ~IsTimedOut(pollOutcome.err)

\* the first image of a status response carries a URL: it is a URL string or
\* an object with a url or image_url field
FirstImageHasUrl(r) == Len(r.images) > 0 /\ ItemUrl(r.images[1]) # ""

\* the value handed back is the first image or the URL it carries
IsFirstImage(u, r) == u = r.images[1] \/ u = Str(ItemUrl(r.images[1]))

\* C4: when the submission response held only a request id, the k status
\* polls so far all returned queued/in_progress and the next poll returns
\* "completed" with an images list whose first image carries a URL,
\* generateImage resolves at that poll to {url: first image}, after exactly k
\* polling waits and k + 1 status queries of that run; this for every k from 0
\* to the attempt ceiling minus one.  While all polls return
\* queued/in_progress each poll is followed by exactly one wait.
C4_ResolvesAfterKWaits ==
    /\ (pc = "poll" /\ pendingBefore /\ (lastPoll = NoPoll \/ IsPending(lastPoll))) =>
          (runWaits = runQueries /\ runQueries < MaxAttemptsOf(variant))
    /\ (pendingBefore /\ lastPoll.kind = "json" /\ lastPoll.status = "completed"
           /\ FirstImageHasUrl(lastPoll)) =>
          /\ pc = "done"
          /\ outcome.kind = "ok"
          /\ IsFirstImage(outcome.url, lastPoll)
          /\ pollOutcome = outcome
          /\ runWaits = runQueries - 1
          /\ runQueries <= MaxAttemptsOf(variant)

\* C4 witness: three in_progress/queued polls, then completed with images
C4_Witness ==
    /\ pc = "done" /\ outcome.kind = "ok" /\ outcome.url = Str("u1")
    /\ Format3Applies(lastSub)
    /\ pendingBefore /\ lastPoll.status = "completed" /\ lastPoll.images = <<Str("u1"), Str("u2")>>
    /\ runQueries = 4 /\ runWaits = 3

\* C5 (as stated): one polling run issues at most maxAttempts status queries
\* (60 server, 30 api); a run in which no query yielded a terminal status
\* ends in the timed-out failure.
C5_EndsTimedOut ==
    /\ runQueries <= (IF variant = "server" THEN 60 ELSE 30)
    /\ (PollSettled /\ firstTerminal = "") =>
          (pollOutcome.kind = "error" /\ IsTimedOut(pollOutcome.err))

\* C5 (amended): one polling run issues at most maxAttempts status queries
\* (60 server, 30 api), one per loop iteration; a run in which no query
\* yielded a terminal status never succeeds and ends only after the last
\* attempt, in the timed-out failure when the last query returned a status,
\* and in the error of the last query when that query itself failed
\* (network exception or non-OK HTTP status).
C5_EndsInFailure ==
    /\ runQueries <= (IF variant = "server" THEN 60 ELSE 30)
    /\ pc = "poll" => (runQueries = pollAttempt /\ pollAttempt < (IF variant = "server" THEN 60 ELSE 30))
    /\ (PollSettled /\ firstTerminal = "") =>
          /\ pollOutcome.kind = "error"
          /\ runQueries = (IF variant = "server" THEN 60 ELSE 30)
          /\ IF lastPoll.kind = "json"
             THEN IsTimedOut(pollOutcome.err)
             ELSE /\ ~IsTimedOut(pollOutcome.err)
                  /\ \/ Includes(pollOutcome.err.msg, "fetch failed")
                     \/ Includes(pollOutcome.err.msg, "Status check failed with status")

\* C5 witness: a run of non-terminal statuses that used up every attempt
C5_Witness ==
    /\ PollSettled /\ firstTerminal = "" /\ lastPoll.kind = "json"
    /\ runQueries = MaxAttemptsOf(variant)
    /\ IsTimedOut(pollOutcome.err)

Unrecognized(r) ==
    /\ r.kind \in {"json", "array"}
    /\ ~Format1Applies(r) /\ ~Format2Applies(r) /\ ~Format3Applies(r) /\ ~Format4Applies(r)

\* C7: a submission attempt that ends in a non-transient failure (a non-OK
\* HTTP response with an error body, or an unrecognized success shape) is
\* the last one: the error propagates at once, without a backoff wait and
\* without another POST, whatever the text of the error body is.
C7_NonTransientNotRetried ==
    (fn = "generateImage" /\ (lastSub.kind = "http" \/ Unrecognized(lastSub))) =>
        /\ pc = "done"
        /\ outcome.kind = "error"
        /\ nSubmit = 1 => backoffs = <<>>

\* the submission response carries a URL directly: a first image with a URL,
\* or a url / image_url field
HasDirectUrl(r) == r.kind = "json" /\ (FirstImageHasUrl(r) \/ r.url # "" \/ r.image_url # "")

FirstUrl(r) == IF FirstImageHasUrl(r) THEN ItemUrl(r.images[1]) ELSE Or(r.url, r.image_url)

\* C8: a submission response with an images array whose first image carries
\* a URL, or with a url / image_url field, makes generateImage return
\* {url: first URL} at that response, without a status query, also when the
\* response carries a request id as well.
C8_DirectUrlNoPolling ==
    (fn = "generateImage" /\ HasDirectUrl(lastSub)) =>
        /\ pc = "done"
        /\ outcome = Settled("ok", Str(FirstUrl(lastSub)), "", NoErr)
        /\ pollOutcome.kind # "ok"
        /\ nSubmit = 1 => (runQueries = 0 /\ lastPoll = NoPoll)

\* C8 witness: images and a request id in one response
C8_Witness ==
    /\ pc = "done" /\ fn = "generateImage"
    /\ lastSub.images = <<Str("u1"), Str("u2")>> /\ lastSub.request_id = Str("abc")
    /\ outcome.kind = "ok" /\ outcome.url = Str("u1") /\ runQueries = 0

\* C9: every successful return of generateImage and generateVideo carries a
\* defined asset url (a non-empty string); a request id alone is never the
\* result.
C9_SuccessCarriesUrl ==
    outcome.kind = "ok" => (outcome.url.t = "str" /\ outcome.url.s # "")

\* the provider key / secret is configured in some environment variable
KeyConfigured(e) == e.HF_API_KEY # "" \/ Part(e.HF_CREDENTIALS, 1) # ""

SecretConfigured(e) == e.HF_API_SECRET # "" \/ Part(e.HF_CREDENTIALS, 2) # ""

\* C10: when the provider key or secret is not configured, generateImage and
\* generateVideo fail with the missing-credentials error before any request
\* (submission, status query, SDK subscribe) is issued.
C10_MissingCredentialsFirst ==
    (fn # "none" /\ (~KeyConfigured(env) \/ ~SecretConfigured(env))) =>
        /\ pc = "done"
        /\ outcome = Rejected(Err("Error", "", "", MissingCredentialsMsg))
        /\ nSubmit = 0 /\ nSubscribe = 0 /\ runQueries = 0

(***************************************************************************)
(* Properties of the project store.                                        *)
(***************************************************************************)
\* C12: project ids are assigned once and never reused: every id assigned so
\* far, the ids of deleted projects included, is below the id the next
\* createProject uses, and the id field of every stored record is the id it
\* was created with (the key it is stored under).
C12_IdsNeverReused ==
    /\ \A i \in DOMAIN created : i < projectIdCounter
    /\ \A i \in DOMAIN projects : projects[i].id = i /\ created[i].id = i

\* C13: createdAt is immutable: every stored project carries the createdAt that
\* createProject stamped, whatever updates it received since.
C13_CreatedAtImmutable ==
    \A i \in DOMAIN projects : projects[i].createdAt = created[i].createdAt

\* the step is one run of the PATCH handler that found its project
Patched == last'.op = "PATCH" /\ last'.found

\* C14: updateProject(id, patch) on an existing project sets exactly the fields
\* the patch names, to the patch's values: every other field of that project
\* and every other project is unchanged, and the record returned is the
\* record stored.
C14_UpdateChangesOnlyPatch ==
    [][Patched =>
        /\ DOMAIN projects' = DOMAIN projects
        /\ \A k \in Keys :
             projects'[last'.id][k] =
                IF Named(last'.body, k) THEN last'.body[k] ELSE projects[last'.id][k]
        /\ \A j \in DOMAIN projects \ {last'.id} : projects'[j] = projects[j]
        /\ last'.value = projects'[last'.id]]_vars

\* a patch naming only script was applied to one of two stored projects
C14_Witness ==
    /\ last.op = "PATCH" /\ last.found
    /\ last.body = Body(Omitted, "x")
    /\ projects[last.id].script = "x" /\ projects[last.id].title = "a"
    /\ Cardinality(DOMAIN projects) = 2

\* C16: for every valid create input, getProject(createProject(f).id) returns a
\* record equal to the one createProject returned, as long as that id was
\* neither updated nor deleted in between.
C16_GetReturnsCreated ==
    /\ \A i \in DOMAIN created :
         Untouched(i) => getProject(projects, i) = [found |-> TRUE, value |-> created[i]]
    /\ (last.op = "GET" /\ Untouched(last.id)) =>
         last.found /\ last.value = created[last.id]
    /\ last.op = "POST" /\ last.found /\ Untouched(last.id) =>
         getProject(projects, last.id).value = last.value

\* getProject answered for a project created from an input without script,
\* while another project was updated in between
C16_Witness ==
    /\ last.op = "GET" /\ Untouched(last.id) /\ last.found
    /\ last.value.script = Null
    /\ \E j \in DOMAIN projects : ~Untouched(j)

\* the store as a whole: the projects, the id counter and the storage file
wholeStore == <<projects, projectIdCounter, file>>

\* C17: updateProject on an id that is not in the store returns undefined and
\* leaves the whole store, the id counter included, unchanged; on an id that
\* is present it always succeeds (returns the updated record).
C17_UpdateAbsentNotFound ==
    [][last'.op = "PATCH" =>
        IF last'.id \in DOMAIN projects
        THEN last'.found /\ last'.value = projects'[last'.id]
        ELSE ~last'.found /\ last'.value = NoFields /\ wholeStore' = wholeStore]_vars

\* an update of an id that was deleted, or never created, while the store
\* holds another project
C17_Witness ==
    /\ last.op = "PATCH" /\ ~last.found /\ last.body # NoFields
    /\ last.id \notin DOMAIN projects
    /\ projects # NoProjects

\* C18: after deleteProject(id) returned true, getProject(id) reports not-found
\* and a second deleteProject(id) returns false without changing the store.
C18_DeleteThenAbsent ==
    [][(last.op = "DELETE" /\ last.found /\ last'.id = last.id) =>
         /\ last.id \notin DOMAIN projects
         /\ last'.op = "GET" => ~last'.found
         /\ last'.op = "DELETE" => ~last'.found /\ wholeStore' = wholeStore]_vars

\* a second delete of a project that was created and deleted
C18_Witness ==
    /\ last.op = "DELETE" /\ ~last.found
    /\ last.id \in DOMAIN created /\ last.id \notin DOMAIN projects

\* C20: GET, PATCH and DELETE of /api/projects/:id answer 404 exactly when the
\* id is not in the store; DELETE of a present id answers 204 and removes the
\* record, and only that record.
C20_NotFoundExactlyWhenAbsent ==
    [][last'.op \in {"GET", "PATCH", "DELETE"} =>
        /\ last'.status = 404 <=> last'.id \notin DOMAIN projects
        /\ (last'.op = "DELETE" /\ last'.id \in DOMAIN projects) =>
             /\ last'.status = 204
             /\ projects' = Remove(projects, last'.id)]_vars

\* a DELETE answered 204 while another project stays stored
C20_Witness ==
    /\ last.op = "DELETE" /\ last.status = 204
    /\ projects # NoProjects

\* a >= b on two createdAt values: two strings compare as texts, anything
\* else as numbers, and a comparison with NaN is false
Geq(a, b) ==
    IF a.t = "string" /\ b.t = "string" THEN a.v >= b.v
    ELSE ~IsNaN(a) /\ ~IsNaN(b) /\ getTime(a) >= getTime(b)

\* C19: getProjects returns every stored project exactly once, ordered by
\* createdAt descending: of two adjacent records a before b of the result,
\* a.createdAt >= b.createdAt.
C19_ListSortedDescending ==
    last.op = "GET list" =>
        /\ \E s \in Orders(DOMAIN projects) :
             last.list = [n \in DOMAIN s |-> projects[s[n]]]
        /\ \A n \in 1..(Len(last.list) - 1) :
             Geq(last.list[n].createdAt, last.list[n + 1].createdAt)

\* a patch applied to a record, field by field
ApplyPatch(rec, patch) ==
    [k \in Keys |-> IF patch[k] = OmittedOf(k) THEN rec[k] ELSE patch[k]]

RECURSIVE ApplyAll(_, _)
ApplyAll(rec, patches) ==
    IF patches = <<>> THEN rec
    ELSE ApplyAll(ApplyPatch(rec, Head(patches)), Tail(patches))

\* the overlapping updateProject calls that found project id, in call order
CallsOn(id) == SelectSeq(calls, LAMBDA c : c.id = id /\ c.found)

\* C15: update requests on the same existing project that run concurrently are
\* each applied atomically: the stored record is the record found by the first
\* of them with their patches applied one after the other in some order, so a
\* field named by only one patch keeps that patch's value, and each request is
\* answered with the record as its own update left it.
C15_ConcurrentUpdatesSerialize ==
    /\ \A id \in DOMAIN projects :
         LET cs == CallsOn(id) IN
           cs # <<>> =>
             /\ \E o \in Orders(DOMAIN cs) :
                  projects[id] = ApplyAll(cs[1].existing, [n \in DOMAIN cs |-> cs[o[n]].body])
             /\ \A k \in Keys :
                  \A n \in DOMAIN cs :
                     (/\ Named(cs[n].body, k)
                      /\ \A m \in DOMAIN cs \ {n} : ~Named(cs[m].body, k))
                     => projects[id][k] = cs[n].body[k]
    /\ \A n \in DOMAIN inflight :
         inflight[n].found =>
            \A k \in Keys : Named(inflight[n].body, k) =>
                               inflight[n].value[k] = inflight[n].body[k]

\* two overlapping requests on project 1, one naming script, the other id and
\* createdAt, both answered
C15_Witness ==
    /\ inflight = <<>>
    /\ Len(CallsOn(1)) = 2
    /\ \E n \in {1, 2} : Named(CallsOn(1)[n].body, "script") /\ ~Named(CallsOn(1)[3 - n].body, "script")
    /\ \E n \in {1, 2} : Named(CallsOn(1)[n].body, "id")
    /\ projects[1].script = "x" /\ projects[1].id = 9

\* the project has no image URL
NoImageUrl(project) == project.imageUrl \in {Null, Undefined, Omitted, ""}

\* the milestone flag and the URL of the image disagree
Diverged(project) ==
    \/ project.imageGenerated = "true" /\ NoImageUrl(project)
    \/ project.imageGenerated = "false" /\ ~NoImageUrl(project)

\* C11 as stated: in every store state reachable through the application's
\* operations (image generation, hook upload, manual checklist toggles) no
\* project has imageGenerated = true with an empty imageUrl, nor an imageUrl
\* set with imageGenerated = false.
C11_FlagAndUrlNeverDiverge ==
    \A i \in DOMAIN projects : ~Diverged(projects[i])

\* the step is a manual toggle of the imageGenerated checklist item of project i
ToggledImage(i) ==
    /\ last'.by = "handleChecklistChange"
    /\ last'.id = i
    /\ Named(last'.body, "imageGenerated")

\* C11, amended: a successful generation's URL and its milestone flag are
\* persisted in one update call, which leaves the project with
\* imageGenerated = true and a non-empty imageUrl whatever it held before; and
\* a project's flag and URL come to disagree only by a manual toggle of its
\* imageGenerated checklist item, never by image generation, hook upload,
\* creation, deletion or a toggle of another item.
C11_OnlyToggleDiverges ==
    [][/\ (last'.by = "generateImageMutation" /\ last'.found) =>
            /\ Named(last'.body, "imageUrl") /\ Named(last'.body, "imageGenerated")
            /\ projects'[last'.id].imageGenerated = "true"
            /\ ~NoImageUrl(projects'[last'.id])
       /\ \A i \in DOMAIN projects' :
            (Diverged(projects'[i]) /\ (i \in DOMAIN projects => ~Diverged(projects[i])))
               => ToggledImage(i)]_vars

\* a generation succeeded on a project whose flag had been reset by hand while
\* the other project's flag is set by hand without an image
C11_Witness ==
    /\ last.by = "generateImageMutation" /\ last.found
    /\ projects[last.id].imageGenerated = "true"
    /\ projects[last.id].imageUrl = "data:image/png;base64,b64"
    /\ \E j \in DOMAIN projects \ {last.id} : Diverged(projects[j])

\* C21: POST /api/projects with a body that violates the insert schema answers
\* 400 and creates nothing: projects, the id counter and the file are
\* unchanged, so the next successful create gets the id the counter held
\* before the rejected request.
C21_RejectedCreateChangesNothing ==
    [][last'.op = "POST" =>
         IF ~Named(last'.body, "title")
         THEN /\ last'.status = 400
              /\ UNCHANGED <<projects, projectIdCounter, file>>
         ELSE /\ last'.status = 201
              /\ last'.value.id = projectIdCounter
              /\ projectIdCounter' = projectIdCounter + 1]_vars

\* a body without a title was rejected after one project had been created
C21_Witness ==
    /\ last.op = "POST" /\ last.status = 400
    /\ ~Named(last.body, "title")
    /\ DOMAIN projects = {1} /\ projectIdCounter = 2

(***************************************************************************)
(* Properties of the media proxy's retry and polling loops.                *)
(***************************************************************************)
\* C24: once a submission response of generateImage has yielded a request id
\* and polling has begun, the call issues no further submission request:
\* every polling failure propagates to the caller without re-entering the
\* submission retry loop.
C24_NoSubmissionAfterPolling ==
    [][pc = "poll" => pc' # "submit"]_vars

\* the step is a status query of the polling loop that itself failed
QueryFailed ==
    /\ pc = "poll"
    /\ runQueries' = runQueries + 1
    /\ lastPoll'.kind \in {"netfail", "http"}

\* C25: a status query that itself fails (network exception or non-OK HTTP
\* status) before the last attempt does not end the job: the poller waits one
\* interval and goes on to the next attempt, the failed query having used up
\* one attempt; a failed query on the last attempt is raised to the poller's
\* caller, in place of the timed-out error.
C25_FailedQueryRetried ==
    [][QueryFailed =>
         /\ runQueries = pollAttempt
         /\ IF pollAttempt < MaxAttemptsOf(variant) - 1
            THEN /\ pc' = "poll"
                 /\ pollOutcome' = Unsettled
                 /\ runWaits' = runWaits + 1
                 /\ pollAttempt' = pollAttempt + 1
            ELSE /\ pollOutcome'.kind = "error"
                 /\ ~IsTimedOut(pollOutcome'.err)
                 /\ \/ Includes(pollOutcome'.err.msg, "fetch failed")
                    \/ Includes(pollOutcome'.err.msg, "Status check failed with status")
                 /\ runWaits' = runWaits]_vars

\* two status queries failed, the poller slept twice and is still polling
C25_Witness ==
    /\ pc = "poll"
    /\ lastPoll.kind \in {"netfail", "http"}
    /\ runQueries = 2 /\ runWaits = 2 /\ pollAttempt = 2
    /\ pollOutcome = Unsettled

C29_SaveLoadRoundTrip ==
    LET l == loadData(file) IN
      /\ l.projects = projects
      /\ l.projectIdCounter = projectIdCounter
      /\ l.projectIdCounter \notin DOMAIN created

(***************************************************************************)
(* Properties of script generation.                                        *)
(***************************************************************************)
\* the chat completion call failed, or returned empty or unparsable content
UpstreamFailed == generated.upstream \in {"throw", "empty", "unparsable"}

\* the response is an error: an error status and an error message
ErrorAnswer == generated.status >= 400 /\ generated.body = "error"

\* C22 as stated: if the LLM upstream is unavailable (no API key), its call
\* fails, or it returns empty or unparsable content, POST /api/generate-script
\* answers with an error status and an error message, never with a 2xx script
\* body.
C22_NoScriptWithoutUpstream ==
    (generated.status # 0 /\ (~isOpenAIAvailable(openaiApiKey) \/ UpstreamFailed))
        => ErrorAnswer

\* C22, amended: with an API key, a call that fails or returns empty or
\* unparsable content is answered with an error status (the status the error
\* carries, else 500) and an error message, never with a 2xx body; without an
\* API key the route answers 200 with its canned script.
C22_ErrorUnlessCanned ==
    generated.status # 0 =>
        IF ~isOpenAIAvailable(openaiApiKey)
        THEN generated.status = 200 /\ generated.body = "dummy script"
        ELSE /\ UpstreamFailed =>
                  /\ ErrorAnswer
                  /\ generated.status =
                        (IF generated.errorStatus # 0 THEN generated.errorStatus ELSE 500)
             /\ ~UpstreamFailed => (generated.status = 200 /\ generated.body = "script")

\* with an API key, the call threw an error that carries no status
C22_Witness ==
    /\ isOpenAIAvailable(openaiApiKey)
    /\ generated.upstream = "throw" /\ generated.errorStatus = 0
    /\ generated.status = 500 /\ generated.body = "error"

\* C23: for every positive integer videoLength v the instruction template
\* states a target word count of round(2.5 * v), the integer nearest to 2.5 v
\* with a half going up, and a duration window from v to v + 5 seconds; v = 20
\* gives 50 words and the window 20-25.
C23_TemplateArithmetic ==
    LET v == generated.videoLength
        t == generated.template
    IN (generated.status # 0 /\ isOpenAIAvailable(openaiApiKey) /\ v > 0) =>
          /\ 2 * t.words - 5 * v \in {0, 1}
          /\ t.from = v
          /\ t.to = v + 5
          /\ v = 20 => (t.words = 50 /\ t.from = 20 /\ t.to = 25)

\* the template of a request for an odd number of seconds: 2.5 * 19 = 47.5
C23_Witness ==
    /\ isOpenAIAvailable(openaiApiKey)
    /\ generated.videoLength = 19
    /\ generated.template = [from |-> 19, to |-> 24, words |-> 48, tone |-> "casual"]

(***************************************************************************)
(* Properties of the Vercel entry point.                                   *)
(***************************************************************************)
\* C26: however the invocations of the handler overlap or follow each other,
\* registerRoutes runs at most once in the process and the error handler is
\* installed at most once: an invocation that arrives while the
\* initialization is in flight waits for the promise that is there, and one
\* that arrives after it succeeded is dispatched without waiting.
C26_InitializedOnce ==
    /\ registerRuns <= 1
    /\ errorHandlers <= 1
    /\ (\E i \in DOMAIN requests : requests[i].waited) => registerRuns = 1
    /\ appInitialized => (registerRuns = 1 /\ errorHandlers = 1 /\ initPromise = "fulfilled")
    /\ \A i \in DOMAIN requests :
         requests[i].pc = "running" => appInitialized

\* two invocations waited for the same initialization and both were
\* dispatched after it
C26_Witness ==
    /\ Len(requests) = 2
    /\ \A i \in {1, 2} : requests[i].waited /\ requests[i].pc = "running"
    /\ registerRuns = 1 /\ errorHandlers = 1 /\ appInitialized

\* an invocation has met a failed initialization
SawInitFail == \E i \in DOMAIN requests : requests[i].pc = "rejected" \/ requests[i].status = 500

\* C27: once initializeApp has failed, the failure is permanent: registerRoutes
\* is never run again, appInitialized stays false, no invocation reaches the
\* Express app, and every invocation is answered 500 with the cached error.
C27_InitFailurePermanent ==
    SawInitFail =>
        /\ registerRuns = 1
        /\ errorHandlers = 0
        /\ ~appInitialized
        /\ initError = "routes failed"
        /\ initPromise = "null"
        /\ \A i \in DOMAIN requests :
             /\ requests[i].pc \in {"rejected", "done"}
             /\ requests[i].pc = "done" =>
                  /\ requests[i].status = 500
                  /\ requests[i].message = initError
                  /\ requests[i].settled = "resolved"

\* an invocation that arrived after the failure was answered 500 at once
C27_Witness ==
    /\ Len(requests) = 2
    /\ requests[1].waited /\ requests[1].status = 500
    /\ ~requests[2].waited /\ requests[2].status = 500
    /\ requests[2].message = "routes failed"
    /\ registerRuns = 1

\* C28: for every request dispatched after a successful initialization the
\* handler's promise is settled by the time the response has finished or
\* closed and at the latest 25 s after the dispatch; 504 "Request timeout" is
\* the response exactly when the timer fired while no headers had been sent;
\* and the timer does not fire once the response has finished or closed.
C28_SettlesByTimeout ==
    \A i \in DOMAIN requests :
        requests[i].pc = "running" =>
            /\ requests[i].settled = "no" =>
                  /\ requests[i].timer = "armed"
                  /\ clock <= requests[i].due
                  /\ ~requests[i].finished /\ ~requests[i].closed
            /\ requests[i].timer = "armed" => clock <= requests[i].due
            /\ requests[i].status = 504 <=> requests[i].atFire = "nothing sent"
            /\ requests[i].status = 504 => requests[i].message = "Request timeout"
            /\ requests[i].timer = "fired" <=> requests[i].atFire # ""
            /\ requests[i].atFire # "ended"
            /\ requests[i].timer = "fired" => clock >= requests[i].due

\* the timer of a request fired before any header was sent: 504
C28_Witness ==
    \E i \in DOMAIN requests :
        /\ requests[i].timer = "fired" /\ requests[i].status = 504
        /\ requests[i].settled = "resolved"
        /\ clock = requests[i].due

====
